---- MODULE Spec2Model ----
(***************************************************************************)
(* cordova-res: source resolution, validation and image generation.        *)
(*   src/src/image.ts        resolveSourceImage, generateImage,            *)
(*                           transformImage                                *)
(*   src/unnamed/part_000    resources.ts: RESOURCE_VALIDATORS, RESOURCES  *)
(*   src/src/__tests__/platform.ts   the test of platform.run              *)
(* platform.ts (the runner) is not among the sources; its model follows    *)
(* section 4.4 of the specification and the calls its test observes.       *)
(***************************************************************************)
EXTENDS Integers, Sequences, FiniteSets, TLC

VARIABLES
  \* one application of a validator
  vtype, vmeta, vout,
  \* resolveSourceImage: arguments, loop position, locals, effects, outcome
  rtype, sources, errstream, ri, errors, reads, decodes, sink, rpc, rresult, thrown,
  \* generateImage calls: arguments, position, pending buffer; handles; writeFile calls
  gspec, gsrc, gopts, gdest, gpc, gbuf, hstate, writes,
  \* the platform runner
  platform, requested, runSources, runOptions, rnpc, rnType, rnImg, result,
  ensured, resolveCalls, generateCalls

vvars == <<vtype, vmeta, vout>>
rvars == <<rtype, sources, errstream, ri, errors, reads, decodes, sink, rpc, rresult, thrown>>
gvars == <<gspec, gsrc, gopts, gdest, gpc, gbuf, hstate, writes>>
nvars == <<platform, requested, runSources, runOptions, rnpc, rnType, rnImg, result,
           ensured, resolveCalls, generateCalls>>
vars == <<vvars, rvars, gvars, nvars>>

----------------------------------------------------------------------------
(* Bounds *)

\* longest candidate list given to resolveSourceImage
MaxSources == 3

\* number of generateImage calls that may be in flight together
NCalls == 2

----------------------------------------------------------------------------
(* resources.ts: types, validators, catalog *)

ICON == "icon"

SPLASH == "splash"

RESOURCE_TYPES == <<ICON, SPLASH>>

ResourceTypes == {RESOURCE_TYPES[i] : i \in DOMAIN RESOURCE_TYPES}

ANDROID == "android"

IOS == "ios"

Platforms == {ANDROID, IOS}

\* a metadata field the decoder did not report (JavaScript undefined)
Undefined == -1

BAD_IMAGE_FORMAT == "BAD_IMAGE_FORMAT"

BAD_IMAGE_SIZE == "BAD_IMAGE_SIZE"

\* the value of a validator call that did not throw
OK == [kind |-> "ok", code |-> "none", source |-> "none"]

ValidationError(code, source) == [kind |-> "ValidationError", code |-> code, source |-> source]

\* any rejection that is not a ValidationError (readFile, the decoder)
GenericError(code, source) == [kind |-> "Error", code |-> code, source |-> source]

\* !x for a number-or-undefined x
Falsy(x) == x = Undefined \/ x = 0

\* off by one: rejects a side that equals the minimum
Less_OrEqual(x, n) == x # Undefined /\ x <= n

\* x < n in JavaScript: false when x is undefined
Less(x, n) == x # Undefined /\ x < n

requiredFormat == "png"

\* the splash minimum left at the iPad width
requiredWidth_Stale(type) == IF type = ICON THEN 1024 ELSE 2048

requiredWidth(type) == IF type = ICON THEN 1024 ELSE 2732

requiredHeight(type) == IF type = ICON THEN 1024 ELSE 2732

\* the body of a validator after `await pipeline.metadata()` resolved
RESOURCE_VALIDATORS(type, source, metadata) ==
  IF metadata.format # requiredFormat
    THEN ValidationError(BAD_IMAGE_FORMAT, source)
  ELSE IF \/ Falsy(metadata.width) \/ Falsy(metadata.height)
          \/ Less(metadata.width, requiredWidth(type))
          \/ Less(metadata.height, requiredHeight(type))
    THEN ValidationError(BAD_IMAGE_SIZE, source)
  ELSE OK

\* the xxxhdpi entry written under the xxhdpi name
ANDROID_ICON_images_Duplicate ==
  << [name |-> "drawable-ldpi-icon.png", width |-> 36, height |-> 36],
     [name |-> "drawable-mdpi-icon.png", width |-> 48, height |-> 48],
     [name |-> "drawable-hdpi-icon.png", width |-> 72, height |-> 72],
     [name |-> "drawable-xhdpi-icon.png", width |-> 96, height |-> 96],
     [name |-> "drawable-xxhdpi-icon.png", width |-> 144, height |-> 144],
     [name |-> "drawable-xxhdpi-icon.png", width |-> 192, height |-> 192] >>

\* the xxxhdpi entry missing
ANDROID_ICON_images_Short ==
  << [name |-> "drawable-ldpi-icon.png", width |-> 36, height |-> 36],
     [name |-> "drawable-mdpi-icon.png", width |-> 48, height |-> 48],
     [name |-> "drawable-hdpi-icon.png", width |-> 72, height |-> 72],
     [name |-> "drawable-xhdpi-icon.png", width |-> 96, height |-> 96],
     [name |-> "drawable-xxhdpi-icon.png", width |-> 144, height |-> 144] >>

ANDROID_ICON_images ==
  << [name |-> "drawable-ldpi-icon.png", width |-> 36, height |-> 36],
     [name |-> "drawable-mdpi-icon.png", width |-> 48, height |-> 48],
     [name |-> "drawable-hdpi-icon.png", width |-> 72, height |-> 72],
     [name |-> "drawable-xhdpi-icon.png", width |-> 96, height |-> 96],
     [name |-> "drawable-xxhdpi-icon.png", width |-> 144, height |-> 144],
     [name |-> "drawable-xxxhdpi-icon.png", width |-> 192, height |-> 192] >>

ANDROID_SPLASH_images ==
  << [name |-> "drawable-land-ldpi-screen.png", width |-> 320, height |-> 240],
     [name |-> "drawable-land-mdpi-screen.png", width |-> 480, height |-> 320],
     [name |-> "drawable-land-hdpi-screen.png", width |-> 800, height |-> 480],
     [name |-> "drawable-land-xhdpi-screen.png", width |-> 1280, height |-> 720],
     [name |-> "drawable-land-xxhdpi-screen.png", width |-> 1600, height |-> 960],
     [name |-> "drawable-land-xxxhdpi-screen.png", width |-> 1920, height |-> 1280],
     [name |-> "drawable-port-ldpi-screen.png", width |-> 240, height |-> 320],
     [name |-> "drawable-port-mdpi-screen.png", width |-> 320, height |-> 480],
     [name |-> "drawable-port-hdpi-screen.png", width |-> 480, height |-> 800],
     [name |-> "drawable-port-xhdpi-screen.png", width |-> 720, height |-> 1280],
     [name |-> "drawable-port-xxhdpi-screen.png", width |-> 960, height |-> 1600],
     [name |-> "drawable-port-xxxhdpi-screen.png", width |-> 1280, height |-> 1920] >>

IOS_ICON_images ==
  << [name |-> "icon.png", width |-> 57, height |-> 57],
     [name |-> "icon@2x.png", width |-> 114, height |-> 114],
     [name |-> "icon-40.png", width |-> 40, height |-> 40],
     [name |-> "icon-40@2x.png", width |-> 80, height |-> 80],
     [name |-> "icon-40@3x.png", width |-> 120, height |-> 120],
     [name |-> "icon-50.png", width |-> 50, height |-> 50],
     [name |-> "icon-50@2x.png", width |-> 100, height |-> 100],
     [name |-> "icon-60.png", width |-> 60, height |-> 60],
     [name |-> "icon-60@2x.png", width |-> 120, height |-> 120],
     [name |-> "icon-60@3x.png", width |-> 180, height |-> 180],
     [name |-> "icon-72.png", width |-> 72, height |-> 72],
     [name |-> "icon-72@2x.png", width |-> 144, height |-> 144],
     [name |-> "icon-76.png", width |-> 76, height |-> 76],
     [name |-> "icon-76@2x.png", width |-> 152, height |-> 152],
     [name |-> "icon-83.5@2x.png", width |-> 167, height |-> 167],
     [name |-> "icon-small.png", width |-> 29, height |-> 29],
     [name |-> "icon-small@2x.png", width |-> 58, height |-> 58],
     [name |-> "icon-small@3x.png", width |-> 87, height |-> 87],
     [name |-> "icon-1024.png", width |-> 1024, height |-> 1024] >>

IOS_SPLASH_images ==
  << [name |-> "Default-568h@2x~iphone.png", width |-> 640, height |-> 1136],
     [name |-> "Default-667h.png", width |-> 750, height |-> 1334],
     [name |-> "Default-736h.png", width |-> 1242, height |-> 2208],
     [name |-> "Default-2436h.png", width |-> 1125, height |-> 2436],
     [name |-> "Default-Landscape-736h.png", width |-> 2208, height |-> 1242],
     [name |-> "Default-Landscape-2436h.png", width |-> 2436, height |-> 1125],
     [name |-> "Default-Landscape@2x~ipad.png", width |-> 2048, height |-> 1536],
     [name |-> "Default-Landscape@~ipadpro.png", width |-> 2732, height |-> 2048],
     [name |-> "Default-Landscape~ipad.png", width |-> 1024, height |-> 768],
     [name |-> "Default-Portrait@2x~ipad.png", width |-> 1536, height |-> 2048],
     [name |-> "Default-Portrait@~ipadpro.png", width |-> 2048, height |-> 2732],
     [name |-> "Default-Portrait~ipad.png", width |-> 768, height |-> 1024],
     [name |-> "Default@2x~iphone.png", width |-> 640, height |-> 960],
     [name |-> "Default~iphone.png", width |-> 320, height |-> 480],
     [name |-> "Default@2x~ipad~anyany.png", width |-> 2732, height |-> 2732],
     [name |-> "Default@2x~ipad~comany.png", width |-> 1278, height |-> 2732],
     [name |-> "Default@2x~iphone~anyany.png", width |-> 1334, height |-> 1334],
     [name |-> "Default@2x~iphone~comany.png", width |-> 750, height |-> 1334],
     [name |-> "Default@2x~iphone~comcom.png", width |-> 1334, height |-> 750],
     [name |-> "Default@3x~iphone~anyany.png", width |-> 2436, height |-> 2436],
     [name |-> "Default@3x~iphone~anycom.png", width |-> 2436, height |-> 1242],
     [name |-> "Default@3x~iphone~comany.png", width |-> 1242, height |-> 2436] >>

nodeAttributes(p) ==
  IF p = ANDROID THEN <<"src", "density">> ELSE <<"src", "width", "height">>

RESOURCES ==
  [p \in Platforms |->
     [t \in ResourceTypes |->
        [images |-> IF p = ANDROID
                      THEN (IF t = ICON THEN ANDROID_ICON_images ELSE ANDROID_SPLASH_images)
                      ELSE (IF t = ICON THEN IOS_ICON_images ELSE IOS_SPLASH_images),
         nodeName |-> t,
         nodeAttributes |-> nodeAttributes(p)]]]


----------------------------------------------------------------------------
(* One application of a validator to a metadata triple *)

NoFormat == "undefined"

Formats == {"png", "jpeg", NoFormat}

Dimensions == {Undefined, 0, 1, 1023, 1024, 1025, 2731, 2732, 2733}

Metadata == [format : Formats, width : Dimensions, height : Dimensions]

NotRun == [kind |-> "none", code |-> "none", source |-> "none"]

IdleValidate ==
  /\ vtype = ICON
  /\ vmeta = [format |-> "png", width |-> 1024, height |-> 1024]
  /\ vout = NotRun

Validate ==
  /\ vout = NotRun
  /\ vout' = RESOURCE_VALIDATORS(vtype, "source.png", vmeta)
  /\ UNCHANGED <<vtype, vmeta, rvars, gvars, nvars>>

----------------------------------------------------------------------------
(* image.ts: resolveSourceImage *)

\* what readFile and the decoder give for each path
FileSystem ==
  [missing |-> [readable |-> FALSE, decodable |-> FALSE,
                metadata |-> [format |-> NoFormat, width |-> Undefined, height |-> Undefined]],
   corrupt |-> [readable |-> TRUE, decodable |-> FALSE,
                metadata |-> [format |-> NoFormat, width |-> Undefined, height |-> Undefined]],
   jpeg    |-> [readable |-> TRUE, decodable |-> TRUE,
                metadata |-> [format |-> "jpeg", width |-> 1024, height |-> 1024]],
   small   |-> [readable |-> TRUE, decodable |-> TRUE,
                metadata |-> [format |-> "png", width |-> 1024, height |-> 1023]],
   icon    |-> [readable |-> TRUE, decodable |-> TRUE,
                metadata |-> [format |-> "png", width |-> 1024, height |-> 1024]],
   splash  |-> [readable |-> TRUE, decodable |-> TRUE,
                metadata |-> [format |-> "png", width |-> 2732, height |-> 2732]]]

Paths == DOMAIN FileSystem

\* a Sharp instance just made from the bytes of `source`: no resize, no png options
sharp(source) == [input |-> source, width |-> Undefined, height |-> Undefined, png |-> FALSE]

NoResult == [source |-> "none", image |-> sharp("none")]

NoThrow == [name |-> "none", sources |-> <<>>, errors |-> <<>>]

\* the try block of one loop iteration: OK, or the value that is caught
TryCandidate(type, source) ==
  IF ~FileSystem[source].readable THEN GenericError("readFile", source)
  ELSE IF ~FileSystem[source].decodable THEN GenericError("metadata", source)
  ELSE RESOURCE_VALIDATORS(type, source, FileSystem[source].metadata)

\* the filter dropped: every caught value is carried
ValidationErrorsOf_Unfiltered(errs) == [k \in DOMAIN errs |-> errs[k].error]

\* errors.map(([, error]) => error).filter(e => e instanceof ValidationError)
ValidationErrorsOf(errs) ==
  SelectSeq([k \in DOMAIN errs |-> errs[k].error], LAMBDA e : e.kind = "ValidationError")

\* the lines written to errstream after the loop
WarnLines(errs) ==
  [k \in DOMAIN errs |-> [text |-> "WARN: Error with source file", source |-> errs[k].source,
                          error |-> errs[k].error]]

IdleResolve ==
  /\ rtype = ICON /\ sources = <<>> /\ errstream = FALSE
  /\ ri = 1 /\ errors = <<>> /\ reads = <<>> /\ decodes = <<>> /\ sink = <<>>
  /\ rpc = "idle" /\ rresult = NoResult /\ thrown = NoThrow

\* the return dropped from the try block: a later viable candidate replaces an earlier one
ResolveIter_NoReturn ==
  /\ rpc = "loop" /\ ri <= Len(sources)
  /\ reads' = [reads EXCEPT ![ri] = @ + 1]
  /\ decodes' = [decodes EXCEPT ![ri] = @ + (IF FileSystem[sources[ri]].readable THEN 1 ELSE 0)]
  /\ IF TryCandidate(rtype, sources[ri]) = OK
       THEN /\ rresult' = [source |-> sources[ri], image |-> sharp(sources[ri])]
            /\ rpc' = IF ri = Len(sources) THEN "returned" ELSE "loop"
            /\ ri' = ri + 1
            /\ UNCHANGED errors
       ELSE /\ errors' = Append(errors, [source |-> sources[ri],
                                         error |-> TryCandidate(rtype, sources[ri])])
            /\ ri' = ri + 1
            /\ UNCHANGED <<rresult, rpc>>
  /\ UNCHANGED <<rtype, sources, errstream, sink, thrown, vvars, gvars, nvars>>

\* the warning written in the catch block, as each candidate fails
ResolveIter_WarnInCatch ==
  /\ rpc = "loop" /\ ri <= Len(sources)
  /\ reads' = [reads EXCEPT ![ri] = @ + 1]
  /\ decodes' = [decodes EXCEPT ![ri] = @ + (IF FileSystem[sources[ri]].readable THEN 1 ELSE 0)]
  /\ IF TryCandidate(rtype, sources[ri]) = OK
       THEN /\ rresult' = [source |-> sources[ri], image |-> sharp(sources[ri])]
            /\ rpc' = "returned"
            /\ UNCHANGED <<ri, errors, sink>>
       ELSE /\ errors' = Append(errors, [source |-> sources[ri],
                                         error |-> TryCandidate(rtype, sources[ri])])
            /\ sink' = IF errstream
                         THEN sink \o WarnLines(<<[source |-> sources[ri],
                                                   error |-> TryCandidate(rtype, sources[ri])]>>)
                         ELSE sink
            /\ ri' = ri + 1
            /\ UNCHANGED <<rresult, rpc>>
  /\ UNCHANGED <<rtype, sources, errstream, thrown, vvars, gvars, nvars>>

\* only ValidationErrors caught: a rejection of readFile or of the decoder ends the call
ResolveIter_Fatal ==
  /\ rpc = "loop" /\ ri <= Len(sources)
  /\ reads' = [reads EXCEPT ![ri] = @ + 1]
  /\ decodes' = [decodes EXCEPT ![ri] = @ + (IF FileSystem[sources[ri]].readable THEN 1 ELSE 0)]
  /\ IF TryCandidate(rtype, sources[ri]) = OK
       THEN /\ rresult' = [source |-> sources[ri], image |-> sharp(sources[ri])]
            /\ rpc' = "returned"
            /\ UNCHANGED <<ri, errors>>
       ELSE /\ errors' = Append(errors, [source |-> sources[ri],
                                         error |-> TryCandidate(rtype, sources[ri])])
            /\ ri' = ri + 1
            /\ rpc' = IF TryCandidate(rtype, sources[ri]).kind = "Error" THEN "thrown" ELSE rpc
            /\ UNCHANGED rresult
  /\ UNCHANGED <<rtype, sources, errstream, sink, thrown, vvars, gvars, nvars>>

\* one iteration of `for (const source of sources)`
ResolveIter ==
  /\ rpc = "loop" /\ ri <= Len(sources)
  /\ reads' = [reads EXCEPT ![ri] = @ + 1]
  /\ decodes' = [decodes EXCEPT ![ri] = @ + (IF FileSystem[sources[ri]].readable THEN 1 ELSE 0)]
  /\ IF TryCandidate(rtype, sources[ri]) = OK
       THEN /\ rresult' = [source |-> sources[ri], image |-> sharp(sources[ri])]
            /\ rpc' = "returned"
            /\ UNCHANGED <<ri, errors>>
       ELSE /\ errors' = Append(errors, [source |-> sources[ri],
                                         error |-> TryCandidate(rtype, sources[ri])])
            /\ ri' = ri + 1
            /\ UNCHANGED <<rresult, rpc>>
  /\ UNCHANGED <<rtype, sources, errstream, sink, thrown, vvars, gvars, nvars>>

\* after the loop: the warnings, then the throw
ResolveThrow ==
  /\ rpc = "loop" /\ ri > Len(sources)
  /\ sink' = IF errstream THEN sink \o WarnLines(errors) ELSE sink
  /\ thrown' = [name |-> "ResolveSourceImageError", sources |-> sources,
                errors |-> ValidationErrorsOf(errors)]
  /\ rpc' = "thrown"
  /\ UNCHANGED <<rtype, sources, errstream, ri, errors, reads, decodes, rresult, vvars, gvars, nvars>>

SourceLists == UNION {[1..n -> Paths] : n \in 0..MaxSources}

Zeros(n) == [k \in 1..n |-> 0]

----------------------------------------------------------------------------
(* image.ts: generateImage, transformImage *)

Calls == 1..NCalls

\* handle 0 is the resolved source; handle c is the clone made for call c
Handles == 0..NCalls

NoOptions == "none"

PngOptions == {NoOptions, "quality80"}

NoSpec == [name |-> "none", width |-> Undefined, height |-> Undefined]

NoDest == <<"none", "none">>

NoBuffer == [input |-> "none", width |-> Undefined, height |-> Undefined, png |-> FALSE]

\* src.resize(width, height): sets the resize options of src and returns src itself
transformImage(image, src) == [src EXCEPT !.width = image.width, !.height = image.height]

\* pipeline.png(options): sets the png output options of the pipeline and returns it
png(pipeline, options) == [pipeline EXCEPT !.png = options]

\* the pipeline that generateImage starts: resized, with png options when given
Pipeline(image, src, options) ==
  IF options # NoOptions THEN png(transformImage(image, src), options)
                         ELSE transformImage(image, src)

\* toBuffer(): the output that the pipeline's options describe when it is started
toBuffer(pipeline) == pipeline

IdleGenerate ==
  /\ gspec = [c \in Calls |-> NoSpec]
  /\ gsrc = [c \in Calls |-> 0]
  /\ gopts = [c \in Calls |-> NoOptions]
  /\ gdest = [c \in Calls |-> NoDest]
  /\ gpc = [c \in Calls |-> "idle"]
  /\ gbuf = [c \in Calls |-> NoBuffer]
  /\ hstate = [h \in Handles |-> sharp("none")]
  /\ writes = <<>>

\* lines 49-55 up to the await: transformImage, png(options), and the call of toBuffer
GenStart(c) ==
  /\ gpc[c] = "start"
  /\ hstate' = [hstate EXCEPT ![gsrc[c]] = Pipeline(gspec[c], hstate[gsrc[c]], gopts[c])]
  /\ gbuf' = [gbuf EXCEPT ![c] = toBuffer(Pipeline(gspec[c], hstate[gsrc[c]], gopts[c]))]
  /\ gpc' = [gpc EXCEPT ![c] = "encoding"]
  /\ UNCHANGED <<gspec, gsrc, gopts, gdest, writes, vvars, rvars, nvars>>

\* the output described by the options the handle has when the encoding ends
GenEncoded_Late(c) ==
  /\ gpc[c] = "encoding"
  /\ gbuf' = [gbuf EXCEPT ![c] = toBuffer(hstate[gsrc[c]])]
  /\ gpc' = [gpc EXCEPT ![c] = "writing"]
  /\ UNCHANGED <<gspec, gsrc, gopts, gdest, hstate, writes, vvars, rvars, nvars>>

\* toBuffer resolves
GenEncoded(c) ==
  /\ gpc[c] = "encoding"
  /\ gpc' = [gpc EXCEPT ![c] = "writing"]
  /\ UNCHANGED <<gspec, gsrc, gopts, gdest, gbuf, hstate, writes, vvars, rvars, nvars>>

\* the output streamed to dest while it is encoded: a failed encoding leaves a file
GenEncodeFail_Streamed(c) ==
  /\ gpc[c] = "encoding"
  /\ writes' = Append(writes, [call |-> c, path |-> gdest[c], data |-> NoBuffer, ok |-> TRUE])
  /\ gpc' = [gpc EXCEPT ![c] = "threwEncode"]
  /\ UNCHANGED <<gspec, gsrc, gopts, gdest, gbuf, hstate, vvars, rvars, nvars>>

\* toBuffer rejects: the await throws out of generateImage before writeFile
GenEncodeFail(c) ==
  /\ gpc[c] = "encoding"
  /\ gpc' = [gpc EXCEPT ![c] = "threwEncode"]
  /\ UNCHANGED <<gspec, gsrc, gopts, gdest, gbuf, hstate, writes, vvars, rvars, nvars>>

\* await writeFile(dest, pipelineBuffer) resolves
GenWritten(c) ==
  /\ gpc[c] = "writing"
  /\ writes' = Append(writes, [call |-> c, path |-> gdest[c], data |-> gbuf[c], ok |-> TRUE])
  /\ gpc' = [gpc EXCEPT ![c] = "done"]
  /\ UNCHANGED <<gspec, gsrc, gopts, gdest, gbuf, hstate, vvars, rvars, nvars>>

\* await writeFile(dest, pipelineBuffer) rejects
GenWriteFail(c) ==
  /\ gpc[c] = "writing"
  /\ writes' = Append(writes, [call |-> c, path |-> gdest[c], data |-> gbuf[c], ok |-> FALSE])
  /\ gpc' = [gpc EXCEPT ![c] = "threwWrite"]
  /\ UNCHANGED <<gspec, gsrc, gopts, gdest, gbuf, hstate, vvars, rvars, nvars>>

----------------------------------------------------------------------------
(* platform.ts: run *)

resourcesDirectory == "resources"

\* the output directory of one (platform, type)
OutputDir(p, t) == <<resourcesDirectory, p, t>>

RequestedLists == {<<>>, <<ICON>>, <<SPLASH>>, <<ICON, SPLASH>>, <<SPLASH, ICON>>}

RunSourceLists == {<<"splash">>, <<"missing", "icon", "splash">>, <<"jpeg">>}

IdleRun ==
  /\ platform = ANDROID /\ requested = <<>>
  /\ runSources = [t \in ResourceTypes |-> <<>>]
  /\ runOptions = NoOptions
  /\ rnpc = "off" /\ rnType = 1 /\ rnImg = 1 /\ result = <<>>
  /\ ensured = <<>> /\ resolveCalls = <<>> /\ generateCalls = <<>>

CurType == requested[rnType]

CurImages == RESOURCES[platform][CurType].images

\* step 1: ensure the output directory of the type exists
RunEnsureDir ==
  /\ rnpc = "type" /\ rnType <= Len(requested)
  /\ ensured' = Append(ensured, OutputDir(platform, CurType))
  /\ rnpc' = "resolve"
  /\ UNCHANGED <<platform, requested, runSources, runOptions, rnType, rnImg, result,
                 resolveCalls, generateCalls, vvars, rvars, gvars>>

\* step 2: call the resolver once for the type
RunResolve ==
  /\ rnpc = "resolve"
  /\ resolveCalls' = Append(resolveCalls, [type |-> CurType, sources |-> runSources[CurType]])
  /\ rtype' = CurType /\ sources' = runSources[CurType]
  /\ ri' = 1 /\ errors' = <<>>
  /\ reads' = Zeros(Len(runSources[CurType])) /\ decodes' = Zeros(Len(runSources[CurType]))
  /\ rresult' = NoResult /\ thrown' = NoThrow
  /\ rpc' = "loop"
  /\ rnpc' = "resolving"
  /\ UNCHANGED <<errstream, sink, platform, requested, runSources, runOptions, rnType, rnImg,
                 result, ensured, generateCalls, vvars, gvars>>

\* the resolver returned [src, pipeline]
RunResolved ==
  /\ rnpc = "resolving" /\ rpc = "returned"
  /\ hstate' = [hstate EXCEPT ![0] = rresult.image]
  /\ rnImg' = 1
  /\ rnpc' = "generate"
  /\ UNCHANGED <<gspec, gsrc, gopts, gdest, gpc, gbuf, writes, platform, requested, runSources,
                 runOptions, rnType, result, ensured, resolveCalls, generateCalls, vvars, rvars>>

\* the resolver threw: the runner propagates the failure
RunResolveFailed ==
  /\ rnpc = "resolving" /\ rpc = "thrown"
  /\ rnpc' = "failed"
  /\ UNCHANGED <<platform, requested, runSources, runOptions, rnType, rnImg, result,
                 ensured, resolveCalls, generateCalls, vvars, rvars, gvars>>

\* step 3: call generateImage for the next ImageSpec, on a clone of the resolved pipeline
RunGenerate ==
  /\ rnpc = "generate" /\ rnImg <= Len(CurImages)
  /\ generateCalls' = Append(generateCalls,
        [image |-> CurImages[rnImg], dest |-> <<OutputDir(platform, CurType), CurImages[rnImg].name>>,
         options |-> runOptions])
  /\ hstate' = [hstate EXCEPT ![1] = hstate[0]]
  /\ gspec' = [gspec EXCEPT ![1] = CurImages[rnImg]]
  /\ gsrc' = [gsrc EXCEPT ![1] = 1]
  /\ gopts' = [gopts EXCEPT ![1] = runOptions]
  /\ gdest' = [gdest EXCEPT ![1] = <<OutputDir(platform, CurType), CurImages[rnImg].name>>]
  /\ gbuf' = [gbuf EXCEPT ![1] = NoBuffer]
  /\ gpc' = [gpc EXCEPT ![1] = "start"]
  /\ rnpc' = "generating"
  /\ UNCHANGED <<writes, platform, requested, runSources, runOptions, rnType, rnImg, result,
                 ensured, resolveCalls, vvars, rvars>>

\* step 4: append one GeneratedImage for the ImageSpec
RunGenerated ==
  /\ rnpc = "generating" /\ gpc[1] = "done"
  /\ result' = Append(result, [src |-> rresult.source, dest |-> gdest[1], image |-> gspec[1]])
  /\ gpc' = [gpc EXCEPT ![1] = "idle"]
  /\ rnImg' = rnImg + 1
  /\ rnpc' = "generate"
  /\ UNCHANGED <<gspec, gsrc, gopts, gdest, gbuf, hstate, writes, platform, requested, runSources,
                 runOptions, rnType, ensured, resolveCalls, generateCalls, vvars, rvars>>

\* generateImage threw: the runner propagates the failure
RunGenerateFailed ==
  /\ rnpc = "generating" /\ gpc[1] \in {"threwEncode", "threwWrite"}
  /\ rnpc' = "failed"
  /\ UNCHANGED <<platform, requested, runSources, runOptions, rnType, rnImg, result,
                 ensured, resolveCalls, generateCalls, vvars, rvars, gvars>>

\* every ImageSpec of the type is generated: on to the next requested type
RunNextType ==
  /\ rnpc = "generate" /\ rnImg > Len(CurImages)
  /\ rnType' = rnType + 1
  /\ rnpc' = "type"
  /\ UNCHANGED <<platform, requested, runSources, runOptions, rnImg, result,
                 ensured, resolveCalls, generateCalls, vvars, rvars, gvars>>

\* every requested type is done: run returns the result
RunReturn ==
  /\ rnpc = "type" /\ rnType > Len(requested)
  /\ rnpc' = "done"
  /\ UNCHANGED <<platform, requested, runSources, runOptions, rnType, rnImg, result,
                 ensured, resolveCalls, generateCalls, vvars, rvars, gvars>>

----------------------------------------------------------------------------
(* Specifications *)

\* validators applied to every metadata triple
InitValidate ==
  /\ vtype \in ResourceTypes /\ vmeta \in Metadata /\ vout = NotRun
  /\ IdleResolve /\ IdleGenerate /\ IdleRun

NextValidate == Validate

SpecValidate == InitValidate /\ [][NextValidate]_vars

\* one call of resolveSourceImage on every candidate list
InitResolve ==
  /\ IdleValidate /\ IdleGenerate /\ IdleRun
  /\ rtype \in ResourceTypes /\ sources \in SourceLists /\ errstream \in BOOLEAN
  /\ ri = 1 /\ errors = <<>> /\ sink = <<>>
  /\ reads = Zeros(Len(sources)) /\ decodes = Zeros(Len(sources))
  /\ rpc = "loop" /\ rresult = NoResult /\ thrown = NoThrow

NextResolve == ResolveIter \/ ResolveThrow

SpecResolve == InitResolve /\ [][NextResolve]_vars

\* the ImageSchemas given to concurrent generateImage calls
GenSpecs == {ANDROID_SPLASH_images[1], ANDROID_SPLASH_images[7], IOS_ICON_images[19]}

\* NCalls calls of generateImage in flight, each on the resolved handle or on its own clone
InitGenerate ==
  /\ IdleValidate /\ IdleResolve /\ IdleRun
  /\ gspec \in [Calls -> GenSpecs]
  /\ gsrc \in {f \in [Calls -> Handles] : \A c \in Calls : f[c] \in {0, c}}
  /\ gopts \in [Calls -> PngOptions]
  /\ gdest = [c \in Calls |-> <<OutputDir("gen", "gen"), gspec[c].name>>]
  /\ gpc = [c \in Calls |-> "start"]
  /\ gbuf = [c \in Calls |-> NoBuffer]
  /\ hstate = [h \in Handles |-> sharp("splash")]
  /\ writes = <<>>

NextGenerate ==
  \E c \in Calls :
    GenStart(c) \/ GenEncoded(c) \/ GenEncodeFail(c) \/ GenWritten(c) \/ GenWriteFail(c)

SpecGenerate == InitGenerate /\ [][NextGenerate]_vars

\* one run of the platform runner
Init ==
  /\ IdleValidate /\ IdleGenerate
  /\ rtype = ICON /\ sources = <<>> /\ errstream \in BOOLEAN
  /\ ri = 1 /\ errors = <<>> /\ reads = <<>> /\ decodes = <<>> /\ sink = <<>>
  /\ rpc = "idle" /\ rresult = NoResult /\ thrown = NoThrow
  /\ platform \in Platforms /\ requested \in RequestedLists
  /\ runSources \in [ResourceTypes -> RunSourceLists]
  /\ runOptions \in PngOptions
  /\ rnpc = "type" /\ rnType = 1 /\ rnImg = 1 /\ result = <<>>
  /\ ensured = <<>> /\ resolveCalls = <<>> /\ generateCalls = <<>>

Next ==
  \/ RunEnsureDir \/ RunResolve \/ RunResolved \/ RunResolveFailed
  \/ RunGenerate \/ RunGenerated \/ RunGenerateFailed \/ RunNextType \/ RunReturn
  \/ ResolveIter \/ ResolveThrow
  \/ GenStart(1) \/ GenEncoded(1) \/ GenEncodeFail(1) \/ GenWritten(1) \/ GenWriteFail(1)

Spec == Init /\ [][Next]_vars

----------------------------------------------------------------------------
(* Properties *)

\* the minimum side of a source, as the specification states it
MinSide(type) == IF type = ICON THEN 1024 ELSE 2732

\* the file at `source` can be read and decoded and is a png of at least the minimum size
Viable(type, source) ==
  /\ FileSystem[source].readable /\ FileSystem[source].decodable
  /\ FileSystem[source].metadata.format = "png"
  /\ FileSystem[source].metadata.width >= MinSide(type)
  /\ FileSystem[source].metadata.height >= MinSide(type)

\* the file at `source` is decoded and then rejected by the validator
Invalid(type, source) ==
  /\ FileSystem[source].readable /\ FileSystem[source].decodable
  /\ ~Viable(type, source)

\* the smallest index of a viable candidate, 0 when there is none
FirstViable(type, srcs) ==
  IF \E i \in DOMAIN srcs : Viable(type, srcs[i])
    THEN CHOOSE i \in DOMAIN srcs :
           Viable(type, srcs[i]) /\ \A j \in 1..(i - 1) : ~Viable(type, srcs[j])
    ELSE 0

Finished == rpc \in {"returned", "thrown"}

\* C1: resolveSourceImage returns the first candidate in list order that loads and passes
\* the validator: when i is the smallest viable index the result is candidate i, candidates
\* 1..i have each been read exactly once, and no candidate after i is ever read or decoded.
C1_FirstViableReturned ==
  LET i == FirstViable(rtype, sources) IN
    i # 0 =>
      /\ \A j \in DOMAIN sources : j > i => reads[j] = 0 /\ decodes[j] = 0
      /\ Finished =>
           /\ rpc = "returned"
           /\ rresult.source = sources[i]
           /\ rresult.image.input = sources[i]
           /\ \A j \in 1..i : reads[j] = 1

\* C1 witness: [A fails on format, B passes, C passes] and B has been returned
C1_Witness ==
  /\ rpc = "returned" /\ Len(sources) = 3
  /\ sources[1] = "jpeg" /\ Viable(rtype, sources[2]) /\ Viable(rtype, sources[3])
  /\ rresult.source = sources[2] /\ reads = <<1, 1, 0>>

\* the indices of the candidates that the validator rejects, in candidate order
InvalidIndices == SelectSeq([k \in DOMAIN sources |-> k], LAMBDA k : Invalid(rtype, sources[k]))

C3_WarnedOnEveryOutcome ==
  errstream /\ Finished =>
    /\ Len(sink) = Len(errors)
    /\ \A k \in DOMAIN sink : sink[k].source = errors[k].source

\* C3 amended: with an errstream, the warning lines are written only when every candidate
\* has failed, just before the error is thrown: one line per candidate, in candidate order;
\* when a candidate passes, or without errstream, nothing is written.
C3_WarnedOnlyWhenThrown ==
  /\ rpc # "thrown" => sink = <<>>
  /\ ~errstream => sink = <<>>
  /\ rpc = "thrown" /\ errstream =>
       /\ Len(sink) = Len(sources)
       /\ \A k \in DOMAIN sink : sink[k].source = sources[k] /\ sink[k].error = errors[k].error

\* C3 witness: two failing candidates reported on the sink when the call throws
C3_Witness ==
  /\ rpc = "thrown" /\ errstream /\ Len(sources) = 2 /\ Len(sink) = 2
  /\ sink[1].error.kind = "Error" /\ sink[2].error.kind = "ValidationError"

\* C10: no failure of one candidate ends the call: a read error, a decode error and a
\* validation error are each recorded and the next candidate is examined; a viable later
\* candidate is still returned, the call throws only after every candidate was tried, and
\* no candidate is tried twice.
C10_NoCandidateFailureFatal ==
  /\ \A j \in DOMAIN sources : reads[j] <= 1 /\ decodes[j] <= 1
  /\ rpc = "loop" =>
       /\ Len(errors) = ri - 1
       /\ \A j \in 1..(ri - 1) : reads[j] = 1 /\ errors[j].source = sources[j]
  /\ rpc = "thrown" =>
       /\ Len(errors) = Len(sources)
       /\ \A j \in DOMAIN sources : reads[j] = 1 /\ ~Viable(rtype, sources[j])
  /\ Finished /\ (\E j \in DOMAIN sources : Viable(rtype, sources[j])) => rpc = "returned"

\* C10 witness: an unreadable and a corrupt candidate, then the candidate that is returned
C10_Witness ==
  /\ rpc = "returned" /\ Len(errors) = 2
  /\ errors[1].error.code = "readFile" /\ errors[2].error.code = "metadata"
  /\ rresult.source = sources[3]

\* C4: the validator gives BAD_FORMAT when the format is not png (whatever the size),
\* otherwise BAD_SIZE when a side is absent, zero or below the minimum of the type,
\* otherwise success; a source above the minimum is never rejected.
C4_ValidatorOutcome ==
  vout # NotRun =>
    IF vmeta.format # "png"
      THEN vout.kind = "ValidationError" /\ vout.code = BAD_IMAGE_FORMAT
    ELSE IF \/ vmeta.width = Undefined \/ vmeta.height = Undefined
            \/ vmeta.width = 0 \/ vmeta.height = 0
            \/ vmeta.width < MinSide(vtype) \/ vmeta.height < MinSide(vtype)
      THEN vout.kind = "ValidationError" /\ vout.code = BAD_IMAGE_SIZE
    ELSE vout = OK

\* C4 witness: a 1024x1023 png rejected for ICON with BAD_SIZE
C4_Witness ==
  /\ vtype = ICON /\ vmeta = [format |-> "png", width |-> 1024, height |-> 1023]
  /\ vout.code = BAD_IMAGE_SIZE

\* the ImageSpecs of a type, over every platform of the catalog
SpecsOfType(t) ==
  UNION {{RESOURCES[p][t].images[k] : k \in DOMAIN RESOURCES[p][t].images} : p \in Platforms}

MaxOf(S) == CHOOSE m \in S : \A n \in S : n <= m

\* C5: for each resource type the minimum width and height that its validator requires
\* equal the largest width and the largest height among the catalog ImageSpecs of the type
\* (ICON 1024 and 1024, SPLASH 2732 and 2732), so no ImageSpec exceeds a validated source.
C5_CatalogSelfConsistent ==
  /\ \A t \in ResourceTypes :
       /\ requiredWidth(t) = MaxOf({i.width : i \in SpecsOfType(t)})
       /\ requiredHeight(t) = MaxOf({i.height : i \in SpecsOfType(t)})
       /\ \A i \in SpecsOfType(t) : i.width <= requiredWidth(t) /\ i.height <= requiredHeight(t)
  /\ requiredWidth(ICON) = 1024 /\ requiredHeight(ICON) = 1024
  /\ requiredWidth(SPLASH) = 2732 /\ requiredHeight(SPLASH) = 2732
  /\ vout = OK =>
       \A i \in SpecsOfType(vtype) : i.width <= vmeta.width /\ i.height <= vmeta.height

\* C5 witness: a source exactly as large as the largest splash ImageSpec is accepted
C5_Witness ==
  /\ vtype = SPLASH /\ vout = OK
  /\ vmeta.width = MaxOf({i.width : i \in SpecsOfType(SPLASH)})
  /\ vmeta.height = MaxOf({i.height : i \in SpecsOfType(SPLASH)})

\* the writeFile calls made by call c
WritesOf(c) == {k \in DOMAIN writes : writes[k].call = c}

\* C7: a generateImage call that succeeds has made exactly one file write, to its dest and
\* with the complete encoded buffer; a call whose resize/encode step failed has made no
\* write and ends by throwing; no call ever writes to a path other than its dest.
C7_OneWholeWrite ==
  \A c \in Calls :
    /\ \A k \in WritesOf(c) : writes[k].path = gdest[c]
    /\ Cardinality(WritesOf(c)) <= 1
    /\ gpc[c] \in {"start", "encoding", "writing", "threwEncode"} => WritesOf(c) = {}
    /\ gpc[c] = "done" =>
         /\ Cardinality(WritesOf(c)) = 1
         /\ \A k \in WritesOf(c) :
              /\ writes[k].ok
              /\ writes[k].data.width = gspec[c].width
              /\ writes[k].data.height = gspec[c].height
              /\ gopts[c] # NoOptions => writes[k].data.png = gopts[c]

\* C7 witness: one call has written its output and another has failed in the encoding
C7_Witness ==
  \E c, d \in Calls :
    /\ gpc[c] = "done" /\ gpc[d] = "threwEncode"
    /\ Len(writes) = 1 /\ writes[1].call = c /\ writes[1].path = gdest[c]

\* the calls that have gone past transformImage on handle h
StartedOn(h) == {c \in Calls : gsrc[c] = h /\ gpc[c] # "start"}

\* C9 as stated: generateImage calls given the same resolved source handle leave the state
\* of that handle unchanged, and each call writes to its own destination an image of
\* exactly its own spec's dimensions.
C9_SharedHandleUnchanged ==
  /\ hstate[0] = sharp("splash")
  /\ \A k \in DOMAIN writes :
       /\ writes[k].path = gdest[writes[k].call]
       /\ writes[k].data.width = gspec[writes[k].call].width
       /\ writes[k].data.height = gspec[writes[k].call].height

\* C9 amended: generateImage sets the resize dimensions (and the png options, when given) of
\* the handle it is given, so a handle shared by several calls does change state; the
\* resolved source handle stays unchanged during generation only when every call is given
\* its own clone of it.  In every interleaving, shared handle or not, each call writes to
\* its own destination an image of exactly its own spec's dimensions.
C9_OwnDimensionsWritten ==
  /\ \A h \in Handles : StartedOn(h) = {} => hstate[h] = sharp("splash")
  /\ \A h \in Handles : StartedOn(h) # {} =>
       \E c \in StartedOn(h) :
         hstate[h].width = gspec[c].width /\ hstate[h].height = gspec[c].height
  /\ \A k \in DOMAIN writes :
       /\ writes[k].path = gdest[writes[k].call]
       /\ writes[k].data.width = gspec[writes[k].call].width
       /\ writes[k].data.height = gspec[writes[k].call].height

\* C9 witness: two calls of different dimensions share the resolved handle; the handle holds
\* the dimensions of the call that started last while the other has written its own
C9_Witness ==
  \E c, d \in Calls :
    /\ c # d /\ gsrc[c] = 0 /\ gsrc[d] = 0
    /\ gspec[c].width # gspec[d].width
    /\ gpc[c] = "done" /\ gpc[d] = "encoding"
    /\ hstate[0].width = gspec[d].width
    /\ \E k \in WritesOf(c) : writes[k].data.width = gspec[c].width

RECURSIVE CatalogLength(_, _)
\* the sum of the catalog lengths of the types in `types`
CatalogLength(p, types) ==
  IF types = <<>> THEN 0
  ELSE Len(RESOURCES[p][Head(types)].images) + CatalogLength(p, Tail(types))

\* the path that the resolver is expected to give for type t in this run
ExpectedSource(t) == runSources[t][FirstViable(t, runSources[t])]

\* C6: in a run whose sources all resolve, the resolver is called exactly once per requested
\* type, generateImage exactly once per ImageSpec of each requested type (in total the sum
\* of the catalog lengths, 6 for the Android icons), and the result has exactly one entry
\* per ImageSpec, each with the path of the source resolved for its type as src.
C6_OneResolvePerTypeOneGeneratePerSpec ==
  rnpc = "done" =>
    /\ Len(resolveCalls) = Len(requested)
    /\ \A k \in DOMAIN resolveCalls :
         resolveCalls[k].type = requested[k] /\ resolveCalls[k].sources = runSources[requested[k]]
    /\ Len(generateCalls) = CatalogLength(platform, requested)
    /\ Len(result) = CatalogLength(platform, requested)
    /\ platform = ANDROID /\ requested = <<ICON>> => Len(generateCalls) = 6 /\ Len(result) = 6
    /\ \A k \in DOMAIN requested :
         \A i \in DOMAIN RESOURCES[platform][requested[k]].images :
           /\ Cardinality({g \in DOMAIN generateCalls :
                 /\ generateCalls[g].image = RESOURCES[platform][requested[k]].images[i]
                 /\ generateCalls[g].dest[1] = OutputDir(platform, requested[k])}) = 1
           /\ Cardinality({g \in DOMAIN result :
                 /\ result[g].image = RESOURCES[platform][requested[k]].images[i]
                 /\ result[g].dest[1] = OutputDir(platform, requested[k])
                 /\ result[g].src = ExpectedSource(requested[k])}) = 1

\* C6 witness: a finished run over both types, the icon source found after a failing one
C6_Witness ==
  /\ rnpc = "done" /\ requested = <<ICON, SPLASH>>
  /\ runSources[ICON] = <<"missing", "icon", "splash">>
  /\ Len(result) = Len(RESOURCES[platform][ICON].images) + Len(RESOURCES[platform][SPLASH].images)
  /\ result[1].src = "icon"

\* C8: within every (platform, type) entry of the catalog the output file names are pairwise
\* distinct, so the outputs of one run go to pairwise distinct destination paths and none
\* overwrites another.
C8_DistinctNamesAndDestinations ==
  /\ \A p \in Platforms, t \in ResourceTypes :
       \A i, j \in DOMAIN RESOURCES[p][t].images :
         i # j => RESOURCES[p][t].images[i].name # RESOURCES[p][t].images[j].name
  /\ \A a, b \in DOMAIN generateCalls : a # b => generateCalls[a].dest # generateCalls[b].dest
  /\ \A a, b \in DOMAIN writes : a # b => writes[a].path # writes[b].path

\* C8 witness: every output of the Android icon entry written, each once, in one directory
C8_Witness ==
  /\ platform = ANDROID /\ requested = <<ICON>> /\ rnpc = "done"
  /\ Len(writes) = Len(RESOURCES[ANDROID][ICON].images)
  /\ \A k \in DOMAIN writes : writes[k].path[1] = OutputDir(ANDROID, ICON)

====
